---- MODULE Spec2Model ----
(***************************************************************************)
(* Model of the VirtualMachineInstance eviction reconciler                 *)
(* (controllers/vmi_controller.go).  One management cluster holding the    *)
(* instances, their Cluster and its kubeconfig secret; one workload        *)
(* cluster holding the node the instances are evacuated from.  Each        *)
(* instance key has at most one Reconcile invocation in flight (workqueue  *)
(* per-key serialisation); invocations for different keys interleave at    *)
(* every API call.                                                         *)
(***************************************************************************)
EXTENDS Integers, Sequences, FiniteSets, TLC

\* number of ordinary (replicated or bare) pods running on the node
MaxAppPods == 2

\* the instance keys that reach the reconciler
Instances == {"vmi-a", "vmi-b"}

\* the node named by status.evacuationNodeName
NodeName == "node-7"

\* labels read by getCluster
NamespaceLabel == "capk.cluster.x-k8s.io/kubevirt-machine-namespace"
ClusterLabel == "cluster.x-k8s.io/cluster-name"
LabelSets == {{NamespaceLabel, ClusterLabel}, {ClusterLabel}, {NamespaceLabel}}

\* content of the "<infra-ref-name>-kubeconfig" secret
SecretKinds == {"ok", "missing", "novalue", "unparsable", "noclient"}

\* pods bound to the node: 0 is managed by a DaemonSet, -1 has been
\* terminating for longer than the unreachable-node tolerance, 1..MaxAppPods
\* are ordinary pods
Pods == (-1)..MaxAppPods
IsDaemonSetPod(p) == p = 0
IsLongTerminating(p) == p < 0
EvictablePods(ps) == {p \in ps : ~IsDaemonSetPod(p)}

\* timing constants, in seconds
DrainTimeout == 20
SkipWaitUnreachable == 300
DrainRetryDelay == 20
DeleteRetryDelay == 20

NoError == "nil"
Result(requeueAfter, err) == [requeueAfter |-> requeueAfter, err |-> err]
DrainResult(done, retryAfter, err) ==
    [called |-> TRUE, done |-> done, retryAfter |-> retryAfter, err |-> err]
NoDrainResult ==
    [called |-> FALSE, done |-> FALSE, retryAfter |-> 0, err |-> NoError]
NoNode == [unschedulable |-> FALSE, unreachable |-> FALSE]

VARIABLES
    vmi,            \* management cluster: instance objects
    clusterPresent, \* management cluster: the Cluster the labels name exists
    secret,         \* management cluster: the kubeconfig secret
    node,           \* workload cluster: the node
    pods,           \* workload cluster: pods bound to the node
    pending,        \* workqueue: key is queued for reconciliation
    pc,             \* position of the invocation in flight, per key
    calls,          \* API calls issued by the current/last invocation
    nodeName,       \* vmi.Status.EvacuationNodeName as fetched
    nodeSeen,       \* the node object fetched by the invocation
    skipWait,       \* drainer.SkipWaitForDeleteTimeoutSeconds
    timeout,        \* drainer.Timeout, 0 while no drainer is built
    drainRet,       \* what drainNode returned to Reconcile
    delPolicy,      \* propagation policy of the delete request issued
    ret             \* what Reconcile returned

vars == <<vmi, clusterPresent, secret, node, pods, pending, pc, calls,
          nodeName, nodeSeen, skipWait, timeout, drainRet, delPolicy, ret>>

mgmt == <<clusterPresent, secret>>
remote == <<node, pods>>
locals == <<nodeName, nodeSeen, skipWait, timeout, drainRet, delPolicy>>

\* ------------------------------------------------------------------------
\* Decisions of the code, as pure operators

\* Reconcile, lines 42-59: the instance fetch and the evacuation check.
\* "return" carries the result; "getCluster" goes on to the label checks.
FetchDecision_NoEvacuationCheck(answer, evacuationNodeName) ==
    IF answer = "error" THEN [next |-> "return", res |-> Result(0, "vmiGet")]
    ELSE IF answer = "NotFound" THEN [next |-> "return", res |-> Result(0, NoError)]
    ELSE [next |-> "getCluster", res |-> Result(0, NoError)]
FetchDecision(answer, evacuationNodeName) ==
    IF answer = "error" THEN [next |-> "return", res |-> Result(0, "vmiGet")]
    ELSE IF answer = "NotFound" THEN [next |-> "return", res |-> Result(0, NoError)]
    ELSE IF evacuationNodeName = "" THEN [next |-> "return", res |-> Result(0, NoError)]
    ELSE [next |-> "getCluster", res |-> Result(0, NoError)]

\* getCluster, lines 87-95: the two required labels
LabelError_NamespaceOnly(labels) ==
    IF NamespaceLabel \notin labels THEN "noNamespaceLabel" ELSE NoError
LabelError(labels) ==
    IF NamespaceLabel \notin labels THEN "noNamespaceLabel"
    ELSE IF ClusterLabel \notin labels THEN "noClusterLabel"
    ELSE NoError

\* getCluster, lines 97-103: the Cluster fetch
ClusterError_Ignored(found) == NoError
ClusterError(found) == IF found THEN NoError ELSE "clusterGet"

\* drainNode, lines 112-128: secret fetch, "value" key, parse, client
CredentialsUsable(kind) == kind = "ok"
CredentialFailure_Surfaced == DrainResult(FALSE, 0, "credentials")
CredentialFailure == DrainResult(FALSE, 0, NoError)

\* drainNode, lines 130-138: the node fetch
NodeNotFound_AsError == DrainResult(FALSE, 0, "nodeGet")
NodeNotFound == DrainResult(TRUE, 0, NoError)
NodeGetFailed_AsDone == DrainResult(TRUE, 0, NoError)
NodeGetFailed == DrainResult(FALSE, 0, "nodeGet")

\* drainNode, lines 164-167
SkipWaitFor_Always(unreachable) == SkipWaitUnreachable
SkipWaitFor(unreachable) == IF unreachable THEN SkipWaitUnreachable ELSE 0

\* drainNode, lines 169-173
CordonFailed_Swallowed == DrainResult(FALSE, 0, NoError)
CordonFailed_WithDelay == DrainResult(FALSE, DrainRetryDelay, "cordon")
CordonFailed == DrainResult(FALSE, 0, "cordon")

\* drainNode, lines 175-179
DrainFailed_NoDelay == DrainResult(FALSE, 0, NoError)
DrainFailed_AsDone == DrainResult(TRUE, 0, NoError)
DrainFailed == DrainResult(FALSE, DrainRetryDelay, NoError)

\* drainNode, lines 181-182
DrainSucceeded == DrainResult(TRUE, 0, NoError)

\* Reconcile, line 68: stop unless the node is drained
StopAfterDrain_ErrorOnly(dr) == dr.err # NoError
StopAfterDrain(dr) == dr.err # NoError \/ ~dr.done

\* Reconcile, line 70
DrainStopResult(dr) == Result(dr.retryAfter, dr.err)

\* Reconcile, line 74
DeletePropagation_Background == "Background"
DeletePropagation == "Foreground"

\* Reconcile, lines 75-82: the result for each answer of the delete call
DeleteOutcomes == {"ok", "NotFound", "AlreadyExists", "Other"}
DeleteResult(outcome) ==
    IF outcome = "ok" THEN Result(0, NoError)
    ELSE IF outcome # "AlreadyExists" THEN Result(DeleteRetryDelay, outcome)
    ELSE Result(0, NoError)

\* the pods RunNodeDrain selects with Force, IgnoreAllDaemonSets and
\* DeleteEmptyDirData set: all but DaemonSet pods, and with a positive
\* SkipWaitForDeleteTimeoutSeconds all but those terminating for longer
PodsForDeletion_All(ps, skip) == ps
PodsForDeletion(ps, skip) ==
    {p \in ps : ~IsDaemonSetPod(p) /\ ~(skip > 0 /\ IsLongTerminating(p))}

\* the controller requeues a key on an error or a positive RequeueAfter
Requeues(res) == res.err # NoError \/ res.requeueAfter > 0

\* ------------------------------------------------------------------------
TypeOK ==
    /\ vmi \in [Instances -> [phase : {"present", "terminating", "absent"},
                              evacuationNodeName : {"", NodeName},
                              labels : LabelSets]]
    /\ clusterPresent \in BOOLEAN
    /\ secret \in SecretKinds
    /\ node \in [present : BOOLEAN, unschedulable : BOOLEAN, unreachable : BOOLEAN]
    /\ pods \subseteq Pods
    /\ pending \in [Instances -> BOOLEAN]
    /\ pc \in [Instances -> {"idle", "getCluster", "getSecret", "getNode",
                             "cordon", "drain", "delete"}]
    /\ \A i \in Instances : Len(calls[i]) <= 7
    /\ nodeName \in [Instances -> {"", NodeName}]
    /\ skipWait \in [Instances -> {0, SkipWaitUnreachable}]
    /\ timeout \in [Instances -> {0, DrainTimeout}]
    /\ delPolicy \in [Instances -> {"none", "Foreground", "Background", "Orphan"}]
    /\ \A i \in Instances : ret[i].requeueAfter \in {0, DrainRetryDelay, DeleteRetryDelay}

Init ==
    /\ vmi \in [Instances -> [phase : {"present"},
                              evacuationNodeName : {""},
                              labels : LabelSets]]
    /\ clusterPresent \in BOOLEAN
    /\ secret \in SecretKinds
    /\ node \in [present : {TRUE}, unschedulable : {FALSE}, unreachable : BOOLEAN]
    /\ pods = Pods
    /\ pending = [i \in Instances |-> TRUE]
    /\ pc = [i \in Instances |-> "idle"]
    /\ calls = [i \in Instances |-> << >>]
    /\ nodeName = [i \in Instances |-> ""]
    /\ nodeSeen = [i \in Instances |-> NoNode]
    /\ skipWait = [i \in Instances |-> 0]
    /\ timeout = [i \in Instances |-> 0]
    /\ drainRet = [i \in Instances |-> NoDrainResult]
    /\ delPolicy = [i \in Instances |-> "none"]
    /\ ret = [i \in Instances |-> Result(0, NoError)]

\* Reconcile returns res; event: a watch event for the key arrived meanwhile
Return(i, res, event) ==
    /\ pc' = [pc EXCEPT ![i] = "idle"]
    /\ ret' = [ret EXCEPT ![i] = res]
    /\ pending' = [pending EXCEPT ![i] = @ \/ event \/ Requeues(res)]

Goto(i, next) ==
    /\ pc' = [pc EXCEPT ![i] = next]
    /\ UNCHANGED <<ret, pending>>

\* the invocation issued call and got answer
Called(i, call, answer) ==
    calls' = [calls EXCEPT ![i] = Append(@, [call |-> call, answer |-> answer])]

\* what a Get answers
GetAnswer(getError, present) ==
    IF getError THEN "error" ELSE IF present THEN "ok" ELSE "NotFound"

\* ------------------------------------------------------------------------
\* Reconcile, one action per API call and the code that follows it

\* lines 39-65 and 85-95: the key is taken off the queue, the instance is
\* fetched, evacuationNodeName and the labels are examined
ReconcileStart(i) ==
    /\ pc[i] = "idle"
    /\ pending[i]
    /\ nodeSeen' = [nodeSeen EXCEPT ![i] = NoNode]
    /\ skipWait' = [skipWait EXCEPT ![i] = 0]
    /\ timeout' = [timeout EXCEPT ![i] = 0]
    /\ drainRet' = [drainRet EXCEPT ![i] = NoDrainResult]
    /\ delPolicy' = [delPolicy EXCEPT ![i] = "none"]
    /\ \E getError \in BOOLEAN :
         LET answer == GetAnswer(getError, vmi[i].phase # "absent")
             d == FetchDecision(answer, vmi[i].evacuationNodeName)
             le == LabelError(vmi[i].labels)
             res == IF d.next = "return" THEN d.res ELSE Result(0, le)
             stop == d.next = "return" \/ le # NoError
         IN /\ calls' = [calls EXCEPT ![i] =
                            <<[call |-> "getVmi", answer |-> answer]>>]
            /\ nodeName' = [nodeName EXCEPT ![i] =
                  IF answer = "ok" THEN vmi[i].evacuationNodeName ELSE ""]
            /\ pc' = [pc EXCEPT ![i] = IF stop THEN "idle" ELSE "getCluster"]
            /\ ret' = [ret EXCEPT ![i] = res]
            /\ pending' = [pending EXCEPT ![i] = stop /\ Requeues(res)]
    /\ UNCHANGED <<vmi, mgmt, remote>>

\* getCluster, lines 97-103, and Reconcile, lines 62-65
GetCluster(i) ==
    /\ pc[i] = "getCluster"
    /\ Called(i, "getCluster", GetAnswer(FALSE, clusterPresent))
    /\ LET err == ClusterError(clusterPresent)
       IN IF err # NoError
          THEN Return(i, Result(0, err), FALSE)
          ELSE Goto(i, "getSecret")
    /\ UNCHANGED <<vmi, mgmt, remote, locals>>

\* drainNode, lines 112-128, with getKubeconfigForWorkloadCluster
GetKubeconfig(i) ==
    /\ pc[i] = "getSecret"
    /\ Called(i, "getSecret", secret)
    /\ IF CredentialsUsable(secret)
       THEN /\ Goto(i, "getNode")
            /\ UNCHANGED drainRet
       ELSE /\ drainRet' = [drainRet EXCEPT ![i] = CredentialFailure]
            /\ Return(i, DrainStopResult(CredentialFailure), FALSE)
    /\ UNCHANGED <<vmi, mgmt, remote, nodeName, nodeSeen, skipWait, timeout, delPolicy>>

\* drainNode, lines 130-167: the node fetch and the drainer's settings
GetNode(i) ==
    /\ pc[i] = "getNode"
    /\ \E getError \in BOOLEAN :
         LET answer == GetAnswer(getError, node.present)
             dr == IF answer = "error" THEN NodeGetFailed
                   ELSE IF answer = "NotFound" THEN NodeNotFound
                   ELSE NoDrainResult
         IN /\ Called(i, "getNode", answer)
            /\ IF dr.called
               THEN /\ drainRet' = [drainRet EXCEPT ![i] = dr]
                    /\ IF StopAfterDrain(dr)
                       THEN Return(i, DrainStopResult(dr), FALSE)
                       ELSE Goto(i, "delete")
                    /\ UNCHANGED <<nodeSeen, skipWait, timeout>>
               ELSE /\ nodeSeen' = [nodeSeen EXCEPT ![i] =
                           [unschedulable |-> node.unschedulable,
                            unreachable |-> node.unreachable]]
                    /\ skipWait' = [skipWait EXCEPT ![i] =
                                       SkipWaitFor(node.unreachable)]
                    /\ timeout' = [timeout EXCEPT ![i] = DrainTimeout]
                    /\ Goto(i, "cordon")
                    /\ UNCHANGED drainRet
    /\ UNCHANGED <<vmi, mgmt, remote, nodeName, delPolicy>>

\* drainNode, lines 169-173: RunCordonOrUncordon(drainer, node, true) patches
\* the node unless the fetched object is already unschedulable
Cordon(i) ==
    /\ pc[i] = "cordon"
    /\ \E patchError \in BOOLEAN :
         LET patch == ~nodeSeen[i].unschedulable
             failed == patch /\ (patchError \/ ~node.present)
         IN /\ Called(i, "cordon", IF failed THEN "failed" ELSE "ok")
            /\ IF failed
               THEN /\ drainRet' = [drainRet EXCEPT ![i] = CordonFailed]
                    /\ Return(i, DrainStopResult(CordonFailed), FALSE)
                    /\ UNCHANGED node
               ELSE /\ node' = IF patch THEN [node EXCEPT !.unschedulable = TRUE]
                               ELSE node
                    /\ Goto(i, "drain")
                    /\ UNCHANGED drainRet
    /\ UNCHANGED <<vmi, mgmt, pods, nodeName, nodeSeen, skipWait, timeout, delPolicy>>

\* drainNode, lines 175-183: RunNodeDrain evicts the selected pods and waits
\* for them to go; a failed or timed-out drain may have evicted some of them
Drain(i) ==
    /\ pc[i] = "drain"
    /\ \E ok \in BOOLEAN, gone \in SUBSET PodsForDeletion(pods, skipWait[i]) :
         /\ ok => gone = PodsForDeletion(pods, skipWait[i])
         /\ pods' = pods \ gone
         /\ Called(i, "drain", IF ok THEN "ok" ELSE "failed")
         /\ LET dr == IF ok THEN DrainSucceeded ELSE DrainFailed
            IN /\ drainRet' = [drainRet EXCEPT ![i] = dr]
               /\ IF StopAfterDrain(dr)
                  THEN Return(i, DrainStopResult(dr), FALSE)
                  ELSE Goto(i, "delete")
    /\ UNCHANGED <<vmi, mgmt, node, nodeName, nodeSeen, skipWait, timeout, delPolicy>>

\* Reconcile, lines 73-82: the delete request and its result
Delete(i) ==
    /\ pc[i] = "delete"
    /\ delPolicy' = [delPolicy EXCEPT ![i] = DeletePropagation]
    /\ \E outcome \in DeleteOutcomes :
         /\ (outcome = "NotFound") => vmi[i].phase = "absent"
         /\ (outcome = "ok") => vmi[i].phase # "absent"
         /\ Called(i, "delete", outcome)
         /\ vmi' = IF outcome = "ok"
                   THEN [vmi EXCEPT ![i].phase = "terminating"]
                   ELSE vmi
         /\ Return(i, DeleteResult(outcome),
                   outcome = "ok" /\ vmi[i].phase = "present")
    /\ UNCHANGED <<mgmt, remote, nodeName, nodeSeen, skipWait, timeout, drainRet>>

\* ------------------------------------------------------------------------
\* The other actors

\* KubeVirt sets status.evacuationNodeName (lines 53-55)
MarkEvacuation(i) ==
    /\ vmi[i].phase = "present"
    /\ vmi[i].evacuationNodeName = ""
    /\ vmi' = [vmi EXCEPT ![i].evacuationNodeName = NodeName]
    /\ pending' = [pending EXCEPT ![i] = TRUE]
    /\ UNCHANGED <<mgmt, remote, pc, calls, locals, ret>>

\* the instance goes away: its foreground deletion completes, or another
\* actor removes it (lines 45-47)
InstanceRemoved(i) ==
    /\ vmi[i].phase # "absent"
    /\ vmi' = [vmi EXCEPT ![i].phase = "absent"]
    /\ pending' = [pending EXCEPT ![i] = TRUE]
    /\ UNCHANGED <<mgmt, remote, pc, calls, locals, ret>>

\* an admin deletes the node directly (lines 132-135)
NodeDeleted ==
    /\ node.present
    /\ node' = [node EXCEPT !.present = FALSE]
    /\ UNCHANGED <<vmi, mgmt, pods, pending, pc, calls, locals, ret>>

Next ==
    \/ \E i \in Instances : ReconcileStart(i)
    \/ \E i \in Instances : GetCluster(i)
    \/ \E i \in Instances : GetKubeconfig(i)
    \/ \E i \in Instances : GetNode(i)
    \/ \E i \in Instances : Cordon(i)
    \/ \E i \in Instances : Drain(i)
    \/ \E i \in Instances : Delete(i)
    \/ \E i \in Instances : MarkEvacuation(i)
    \/ \E i \in Instances : InstanceRemoved(i)
    \/ NodeDeleted

Spec == Init /\ [][Next]_vars

\* a step of the invocation in flight for key i: every API call returns,
\* the drain within drainer.Timeout
InvocationStep(i) ==
    \/ GetCluster(i)
    \/ GetKubeconfig(i)
    \/ GetNode(i)
    \/ Cordon(i)
    \/ Drain(i)
    \/ Delete(i)

\* invocations in flight run to their return
FairSpec == Spec /\ \A i \in Instances : WF_vars(InvocationStep(i))

\* the steps of key i in which the API call made does not fail
FetchWorks(i) == ReconcileStart(i) /\ calls'[i][1].answer # "error"
NodeFetchWorks(i) == GetNode(i) /\ pc'[i] # "idle"
CordonWorks(i) == Cordon(i) /\ pc'[i] = "drain"
DrainWorks(i) == Drain(i) /\ pc'[i] = "delete"
DeleteWorks(i) == Delete(i) /\ vmi'[i].phase = "terminating"

\* both instances carry the labels of a Cluster that exists and whose
\* kubeconfig secret is well-formed
LiveInit ==
    /\ Init
    /\ clusterPresent /\ secret = "ok"
    /\ \A i \in Instances : vmi[i].labels = {NamespaceLabel, ClusterLabel}

\* from there: a queued key is reconciled, every call returns, and no call
\* that is retried again and again fails for ever
LiveSpec ==
    /\ LiveInit /\ [][Next]_vars
    /\ \A i \in Instances :
          /\ WF_vars(InvocationStep(i))
          /\ WF_vars(ReconcileStart(i))
          /\ SF_vars(FetchWorks(i))
          /\ SF_vars(NodeFetchWorks(i))
          /\ SF_vars(CordonWorks(i))
          /\ SF_vars(DrainWorks(i))
          /\ SF_vars(DeleteWorks(i))

\* ------------------------------------------------------------------------
\* Observations on an invocation's call log

Issued(i, call) == \E k \in 1..Len(calls[i]) : calls[i][k].call = call
AnsweredIn(log, call, answer) ==
    \E k \in 1..Len(log) : log[k].call = call /\ log[k].answer = answer
Answered(i, call, answer) == AnsweredIn(calls[i], call, answer)
Returned(i) == pc[i] = "idle" /\ calls[i] # << >>
RemoteCalls == {"getNode", "cordon", "drain"}
NoRemoteCall(i) == \A c \in RemoteCalls : ~Issued(i, c)

\* ------------------------------------------------------------------------
\* C1: a delete request for the instance is issued only if drainNode
\* returned done = true with a nil error in the same invocation (the node
\* was observed absent, or cordon and drain both succeeded), and every delete
\* request carries the foreground propagation policy.
C1_DeleteOnlyAfterDrainDone ==
    \A i \in Instances :
        /\ (pc[i] = "delete" \/ Issued(i, "delete")) =>
              /\ drainRet[i].called /\ drainRet[i].done
              /\ drainRet[i].err = "nil"
              /\ \/ Answered(i, "getNode", "NotFound")
                 \/ Answered(i, "cordon", "ok") /\ Answered(i, "drain", "ok")
        /\ Issued(i, "delete") <=> delPolicy[i] # "none"
        /\ delPolicy[i] \in {"none", "Foreground"}

C1_Witness ==
    \E i \in Instances :
        /\ Answered(i, "delete", "ok") /\ Answered(i, "drain", "ok")
        /\ vmi[i].phase = "terminating"
        /\ delPolicy[i] = "Foreground"

\* C2: whenever the reconciler is at or past the delete of an instance whose
\* node it did not classify unreachable, the node is absent, or it is
\* cordoned and holds no pod other than DaemonSet pods.
C2_NoDeleteWhileNodeHoldsPods ==
    \A i \in Instances :
        ((pc[i] = "delete" \/ Issued(i, "delete")) /\ ~nodeSeen[i].unreachable) =>
            \/ ~node.present
            \/ node.unschedulable /\ EvictablePods(pods) = {}

C2_Witness ==
    \E i \in Instances :
        /\ pc[i] = "delete" /\ Answered(i, "drain", "ok")
        /\ ~nodeSeen[i].unreachable
        /\ node.present /\ node.unschedulable /\ pods = {0}

\* C3: after a successful drain, a delete that fails because the instance
\* is already gone is treated as success: no error, no requeue delay.
C3_AlreadyGoneIsSuccess ==
    \A i \in Instances :
        (Returned(i) /\ Answered(i, "delete", "NotFound")) =>
            ret[i] = [requeueAfter |-> 0, err |-> "nil"]

\* C4: after a successful drain, every delete failure other than "already
\* gone" makes Reconcile return a requeue delay of 20 together with that
\* error, and the instance is left as it was.
C4_OtherDeleteFailureRequeues ==
    [][\A i \in Instances :
          (/\ pc[i] = "delete" /\ pc'[i] = "idle"
           /\ \E a \in DeleteOutcomes \ {"ok", "NotFound"} :
                 AnsweredIn(calls'[i], "delete", a)) =>
              /\ ret'[i].requeueAfter = 20
              /\ AnsweredIn(calls'[i], "delete", ret'[i].err)
              /\ vmi'[i] = vmi[i]]_vars

\* C5: when the node exists and cordon succeeds but the drain fails or
\* times out, drainNode returns (false, 20, nil), Reconcile returns a
\* requeue of 20 with no error, and no delete is issued.
C5_DrainFailureRequeuesWithoutError ==
    \A i \in Instances :
        Answered(i, "drain", "failed") =>
            /\ Answered(i, "getNode", "ok") /\ Answered(i, "cordon", "ok")
            /\ drainRet[i] = [called |-> TRUE, done |-> FALSE,
                              retryAfter |-> 20, err |-> "nil"]
            /\ pc[i] = "idle"
            /\ ret[i] = [requeueAfter |-> 20, err |-> "nil"]
            /\ ~Issued(i, "delete") /\ delPolicy[i] = "none"

C5_Witness ==
    \E i \in Instances :
        /\ Answered(i, "drain", "failed") /\ Returned(i)
        /\ vmi[i].phase = "present"
        /\ EvictablePods(pods) # {}

\* C6: when cordoning fails, drainNode returns (false, 0, error), Reconcile
\* surfaces that error with no requeue delay, and neither the drain nor the
\* delete is attempted.
C6_CordonFailureSurfaced ==
    \A i \in Instances :
        Answered(i, "cordon", "failed") =>
            /\ drainRet[i].called /\ ~drainRet[i].done
            /\ drainRet[i].retryAfter = 0 /\ drainRet[i].err # "nil"
            /\ pc[i] = "idle"
            /\ ret[i] = [requeueAfter |-> 0, err |-> drainRet[i].err]
            /\ ~Issued(i, "drain") /\ ~Issued(i, "delete")
            /\ delPolicy[i] = "none"

C6_Witness ==
    \E i \in Instances :
        /\ Answered(i, "cordon", "failed") /\ Returned(i)
        /\ node.present /\ ~node.unschedulable /\ pods = Pods

\* C7: when the node fetch reports not-found, drainNode returns
\* (true, 0, nil) without any cordon or drain call, and Reconcile goes on to
\* delete the instance.
C7_AbsentNodeCountsAsDrained ==
    \A i \in Instances :
        Answered(i, "getNode", "NotFound") =>
            /\ drainRet[i] = [called |-> TRUE, done |-> TRUE,
                              retryAfter |-> 0, err |-> "nil"]
            /\ ~Issued(i, "cordon") /\ ~Issued(i, "drain")
            /\ pc[i] = "delete" \/ Issued(i, "delete")

C7_Witness ==
    \E i \in Instances :
        /\ Answered(i, "getNode", "NotFound") /\ Answered(i, "delete", "ok")
        /\ ~node.present /\ EvictablePods(pods) # {}

\* C8: when the credential secret is missing, has no "value" key, cannot be
\* parsed, or no client can be built from it, Reconcile returns no error and
\* no requeue delay, makes no remote call and issues no delete; the return
\* leaves the key's place in the queue as it was, and the key is reconciled
\* again only once it has been queued by an event.
C8_CredentialFailureIsSilent ==
    /\ [](\A i \in Instances :
            (Issued(i, "getSecret") /\ secret # "ok") =>
                /\ pc[i] = "idle"
                /\ ret[i] = [requeueAfter |-> 0, err |-> "nil"]
                /\ NoRemoteCall(i)
                /\ ~Issued(i, "delete") /\ delPolicy[i] = "none")
    /\ [][\A i \in Instances :
            (pc[i] = "getSecret" /\ pc'[i] = "idle") =>
                pending'[i] = pending[i]]_vars
    /\ [][\A i \in Instances :
            (Returned(i) /\ Issued(i, "getSecret") /\ secret # "ok"
                /\ calls'[i] # calls[i]) => pending[i]]_vars

C8_Witness ==
    \E i, j \in Instances :
        /\ Returned(i) /\ Issued(i, "getSecret") /\ ~pending[i]
        /\ secret = "novalue"
        /\ vmi[i].phase = "present" /\ vmi[i].evacuationNodeName = NodeName
        /\ Returned(j) /\ Issued(j, "getSecret") /\ pending[j]

\* C9: for an instance that is absent at reconcile time, or whose
\* evacuationNodeName is empty, Reconcile returns no error and no requeue
\* delay after the instance fetch alone: no cluster or secret lookup, no
\* remote call, no delete.
C9_NothingToDoIsNoOp ==
    \A i \in Instances :
        (\/ Answered(i, "getVmi", "NotFound")
         \/ Answered(i, "getVmi", "ok") /\ nodeName[i] = "") =>
            /\ pc[i] = "idle"
            /\ ret[i] = [requeueAfter |-> 0, err |-> "nil"]
            /\ Len(calls[i]) = 1
            /\ ~drainRet[i].called /\ delPolicy[i] = "none"
            /\ ~pending[i] \/ vmi[i].phase = "absent"
                           \/ vmi[i].evacuationNodeName # ""

C9_Witness ==
    \E i, j \in Instances :
        /\ Answered(i, "getVmi", "NotFound") /\ vmi[i].phase = "absent"
        /\ Answered(j, "getVmi", "ok") /\ nodeName[j] = ""
        /\ vmi[j].phase = "present" /\ vmi[j].labels = {ClusterLabel}

\* C10: when the instance marked for eviction lacks the cluster-namespace
\* or the cluster-name label, or the Cluster they name is not found,
\* Reconcile surfaces an error with no requeue delay; with a label missing
\* no Cluster fetch is issued, and in all these cases there is no credential
\* lookup, no remote call and no delete.
C10_ClusterResolutionFailureSurfaced ==
    \A i \in Instances :
        (/\ Answered(i, "getVmi", "ok") /\ nodeName[i] # ""
         /\ \/ vmi[i].labels # {NamespaceLabel, ClusterLabel}
            \/ Answered(i, "getCluster", "NotFound")) =>
            /\ pc[i] = "idle"
            /\ ret[i].err # "nil" /\ ret[i].requeueAfter = 0
            /\ vmi[i].labels # {NamespaceLabel, ClusterLabel} =>
                   ~Issued(i, "getCluster")
            /\ ~Issued(i, "getSecret") /\ NoRemoteCall(i)
            /\ ~Issued(i, "delete") /\ delPolicy[i] = "none"

C10_Witness ==
    \E i, j \in Instances :
        /\ Returned(i) /\ nodeName[i] # "" /\ vmi[i].labels = {NamespaceLabel}
        /\ ret[i].err = "noClusterLabel"
        /\ Returned(j) /\ Answered(j, "getCluster", "NotFound")
        /\ ret[j].err = "clusterGet"

\* ------------------------------------------------------------------------
\* What made an invocation stop, read off its call log

LabelsMissing(i) ==
    /\ Answered(i, "getVmi", "ok") /\ nodeName[i] # ""
    /\ vmi[i].labels # {NamespaceLabel, ClusterLabel}
HardErrorCondition(i) ==
    \/ LabelsMissing(i)
    \/ Answered(i, "getCluster", "NotFound")
    \/ Answered(i, "cordon", "failed")
GetFailed(i) ==
    Answered(i, "getVmi", "error") \/ Answered(i, "getNode", "error")
DeleteFailed(i) == Issued(i, "delete") /\ ~Answered(i, "delete", "ok")

NoOp(i) ==
    /\ ret[i] = [requeueAfter |-> 0, err |-> "nil"]
    /\ ~Issued(i, "delete") /\ ~Issued(i, "cordon") /\ ~Issued(i, "drain")
Done(i) ==
    /\ ret[i] = [requeueAfter |-> 0, err |-> "nil"]
    /\ Issued(i, "delete")
RequeuedAfter(i) ==
    /\ ret[i].err = "nil" /\ ret[i].requeueAfter > 0
    /\ ~Issued(i, "delete")
RequeuedWithError(i) ==
    /\ ret[i].err # "nil" /\ ret[i].requeueAfter \in {0, 20}
    /\ ~Answered(i, "delete", "ok")
TerminalStates(i) ==
    {t \in {"no-op", "done", "requeued(delay)", "requeued(delay, error)"} :
        \/ t = "no-op" /\ NoOp(i)
        \/ t = "done" /\ Done(i)
        \/ t = "requeued(delay)" /\ RequeuedAfter(i)
        \/ t = "requeued(delay, error)" /\ RequeuedWithError(i)}

\* C12: every invocation returns, whatever the answers of the instance
\* fetch, cluster resolution, credential lookup, node fetch, cordon, drain
\* and delete, and it returns in exactly one of the terminal states no-op,
\* requeued(delay), requeued(delay, error), done.
C12_EveryInvocationTerminates ==
    /\ \A i \in Instances : (pc[i] # "idle") ~> (pc[i] = "idle")
    /\ [](\A i \in Instances :
            Returned(i) => Cardinality(TerminalStates(i)) = 1)

C12_Witness ==
    \E i, j \in Instances :
        /\ Returned(i) /\ TerminalStates(i) = {"requeued(delay, error)"}
        /\ Answered(i, "delete", "Other")
        /\ Returned(j) /\ TerminalStates(j) = {"requeued(delay)"}

\* ------------------------------------------------------------------------
\* the step is one of key i's invocation
StepOf(i) == calls'[i] # calls[i]
\* what one successful invocation leaves behind on a node that is still
\* there: the node cordoned, and no pod that the drain selects
DrainedState ==
    node.present =>
        /\ node.unschedulable
        /\ \A p \in pods : \/ p = 0
                           \/ node.unreachable /\ p < 0

C14_SameNodeRaceIsBenign ==
    /\ [][node.unschedulable => node'.unschedulable]_vars
    /\ [](\A i \in Instances :
            (pc[i] = "delete" \/ Issued(i, "delete")) =>
                /\ drainRet[i].called /\ drainRet[i].done
                /\ Answered(i, "getNode", "NotFound")
                      \/ Answered(i, "drain", "ok"))
    /\ []((\A i \in Instances : Answered(i, "delete", "ok")) =>
            /\ \A i \in Instances : vmi[i].phase # "present"
            /\ DrainedState)

\* both workers fetched the node before either cordoned it, and both are
\* past their drain at the same time
C14_Witness ==
    /\ \A i \in Instances :
          /\ pc[i] = "delete"
          /\ ~nodeSeen[i].unschedulable
          /\ Answered(i, "cordon", "ok") /\ Answered(i, "drain", "ok")
    /\ node.present /\ node.unschedulable

\* ------------------------------------------------------------------------
\* C15: in every drain attempt the stuck-pod tolerance is 300 exactly when
\* the fetched node is classified unreachable, and it is set before the
\* cordon and the drain of that attempt; for a reachable node it stays at
\* the default, and the drain timeout is 20 either way.
C15_UnreachableNodeTolerance ==
    \A i \in Instances :
        (pc[i] \in {"cordon", "drain"} \/ Issued(i, "cordon")) =>
            /\ skipWait[i] = 300 <=> nodeSeen[i].unreachable
            /\ skipWait[i] = 0 <=> ~nodeSeen[i].unreachable
            /\ timeout[i] = 20

\* a drain on an unreachable node succeeded around the long-terminating pod
C15_Witness ==
    \E i \in Instances :
        /\ Answered(i, "drain", "ok") /\ nodeSeen[i].unreachable
        /\ skipWait[i] = 300 /\ timeout[i] = 20
        /\ pods = {-1, 0}

\* ------------------------------------------------------------------------
\* the calls of an invocation in the order of the code
CallOrder ==
    <<"getVmi", "getCluster", "getSecret", "getNode", "cordon", "drain",
      "delete">>
CallOrderNodeAbsent ==
    <<"getVmi", "getCluster", "getSecret", "getNode", "delete">>
CallNames(i) == [k \in 1..Len(calls[i]) |-> calls[i][k].call]
IsPrefix(s, t) == Len(s) <= Len(t) /\ \A k \in 1..Len(s) : s[k] = t[k]

\* C16: within one invocation the calls go out in the order instance fetch,
\* cluster fetch, secret fetch, node fetch, cordon, drain, delete, each at
\* most once, and a call goes out only if every earlier one went out and
\* succeeded; a node fetch answering not-found skips cordon and drain and
\* is followed by the delete.
C16_CallsInOrder ==
    \A i \in Instances :
        /\ IsPrefix(CallNames(i), CallOrder)
              \/ IsPrefix(CallNames(i), CallOrderNodeAbsent)
        /\ \A k \in 1..(Len(calls[i]) - 1) :
              \/ calls[i][k].answer = "ok"
              \/ /\ calls[i][k] = [call |-> "getNode", answer |-> "NotFound"]
                 /\ calls[i][k + 1].call = "delete"
        /\ \A k \in 1..Len(calls[i]) :
              (calls[i][k].call \in {"cordon", "drain"}) =>
                  Answered(i, "getNode", "ok")

C16_Witness ==
    \E i, j \in Instances :
        /\ CallNames(i) = CallOrder
        /\ CallNames(j) = CallOrderNodeAbsent

\* ------------------------------------------------------------------------
\* C17: the reconciler writes nothing but the node's cordon, the eviction
\* of pods that are not DaemonSet-managed, and the delete of the instance:
\* its steps leave the instances' fields and labels, the Cluster and the
\* secret as they are, never create, delete or uncordon the node, and leave
\* DaemonSet pods in place.
C17_OnlyCordonEvictDelete ==
    [][(\E i \in Instances : StepOf(i)) =>
          /\ clusterPresent' = clusterPresent /\ secret' = secret
          /\ \A i \in Instances :
                /\ vmi'[i].labels = vmi[i].labels
                /\ vmi'[i].evacuationNodeName = vmi[i].evacuationNodeName
                /\ \/ vmi'[i].phase = vmi[i].phase
                   \/ /\ pc[i] = "delete" /\ vmi[i].phase = "present"
                      /\ vmi'[i].phase = "terminating"
          /\ node'.present = node.present
          /\ node'.unreachable = node.unreachable
          /\ node.unschedulable => node'.unschedulable
          /\ (node'.unschedulable # node.unschedulable) =>
                 \E i \in Instances : pc[i] = "cordon"
          /\ pods' \subseteq pods
          /\ \A p \in pods \ pods' : p # 0
          /\ (pods' # pods) => \E i \in Instances : pc[i] = "drain"]_vars

C17_Witness ==
    \E i \in Instances :
        /\ Answered(i, "delete", "ok") /\ Answered(i, "drain", "ok")
        /\ vmi[i].phase = "terminating"
        /\ node.present /\ node.unschedulable /\ ~node.unreachable
        /\ pods = {0}

\* ------------------------------------------------------------------------
\* C18: every result of drainNode is a tagged outcome: done implies no
\* retry delay and no error; an error implies not done and no retry delay;
\* the retry delay is 0 or 20, and 20 only when not done, without error,
\* after a failed drain call.
C18_DrainResultWellFormed ==
    \A i \in Instances :
        drainRet[i].called =>
            /\ drainRet[i].done =>
                  drainRet[i].retryAfter = 0 /\ drainRet[i].err = "nil"
            /\ drainRet[i].err # "nil" =>
                  ~drainRet[i].done /\ drainRet[i].retryAfter = 0
            /\ drainRet[i].retryAfter \in {0, 20}
            /\ drainRet[i].retryAfter = 20 =>
                  /\ ~drainRet[i].done /\ drainRet[i].err = "nil"
                  /\ Answered(i, "drain", "failed")

C18_Witness ==
    \E i, j \in Instances :
        /\ drainRet[i].called /\ drainRet[i].retryAfter = 20
        /\ drainRet[j].called /\ drainRet[j].err # "nil"

\* ------------------------------------------------------------------------
\* C19: when the node fetch fails with an error other than not-found,
\* drainNode returns (false, 0, error) without cordoning or draining, and
\* Reconcile returns that error with no requeue delay and no delete.
C19_NodeFetchErrorSurfaced ==
    \A i \in Instances :
        Answered(i, "getNode", "error") =>
            /\ drainRet[i].called /\ ~drainRet[i].done
            /\ drainRet[i].retryAfter = 0 /\ drainRet[i].err # "nil"
            /\ pc[i] = "idle"
            /\ ret[i] = [requeueAfter |-> 0, err |-> drainRet[i].err]
            /\ ~Issued(i, "cordon") /\ ~Issued(i, "drain")
            /\ ~Issued(i, "delete") /\ delPolicy[i] = "none"

C19_Witness ==
    \E i \in Instances :
        /\ Answered(i, "getNode", "error") /\ Returned(i)
        /\ node.present /\ ~node.unschedulable /\ pods = Pods
        /\ vmi[i].phase = "present"

\* ------------------------------------------------------------------------
\* the instance is marked for evacuation and its cluster and credentials
\* resolve
Evacuating(i) ==
    /\ vmi[i].phase = "present" /\ vmi[i].evacuationNodeName # ""
    /\ vmi[i].labels = {NamespaceLabel, ClusterLabel}
    /\ clusterPresent /\ secret = "ok"

\* C20: an instance marked for evacuation whose cluster labels resolve and
\* whose credentials are well-formed is eventually deleted, provided every
\* requeue is followed by a new invocation and cordon, drain and delete
\* each succeed in the end; and every invocation starts from the fetched
\* state, with nothing kept from earlier attempts.
C20_EvacuationEventuallyDeletes ==
    /\ \A i \in Instances : Evacuating(i) ~> (vmi[i].phase # "present")
    /\ [][\A i \in Instances :
            (pc[i] = "idle" /\ StepOf(i)) =>
                /\ Len(calls'[i]) = 1
                /\ ~drainRet'[i].called /\ delPolicy'[i] = "none"
                /\ skipWait'[i] = 0 /\ timeout'[i] = 0]_vars

====
